---- MODULE Spec2Model ----
(***************************************************************************)
(* Model of ElementHoverProvider (src/src/x-ten.js): the hover provider    *)
(* that resolves the identifier under the cursor, looks its assigned       *)
(* literal up in a metadata table and shows the element's photo.           *)
(*                                                                         *)
(* Text is a sequence of one-character strings.  Offsets, line numbers and *)
(* match indexes are zero-based, as in the JavaScript source.              *)
(***************************************************************************)
EXTENDS Integers, Sequences, FiniteSets, TLC

VARIABLES
  now,                          \* Date.now()
  metadataCache,                \* this.metadataCache
  metadataCachePath,            \* this.metadataCachePath
  lastCacheTime,                \* this.lastCacheTime
  variableAssignmentCache,      \* this.variableAssignmentCache (own properties)
  variableAssignmentCachePath,  \* this.variableAssignmentCachePath
  variableAssignmentCacheTime,  \* this.variableAssignmentCacheTime
  workspaceFolder,              \* vscode.workspace.workspaceFolders?.[0]
  disk,                         \* the file system: path -> content
  call,                         \* the last operation: its inputs and what it returned
  metadataOrigin,               \* history: the loadMetadata calls that read and cached
  indexOrigin                   \* history: the scan that produced variableAssignmentCache

vars == <<now, metadataCache, metadataCachePath, lastCacheTime,
          variableAssignmentCache, variableAssignmentCachePath,
          variableAssignmentCacheTime, workspaceFolder, disk, call,
          metadataOrigin, indexOrigin>>

(***************************************************************************)
(* JavaScript values                                                       *)
(***************************************************************************)
\* null / undefined: no text is equal to it
null == <<"null">>

\* a property found on Object.prototype (a function), never equal to a text
inherited == <<"function">>

\* names every object inherits from Object.prototype; the model carries one
ObjectPrototypeKeys == { <<"c","o","n","s","t","r","u","c","t","o","r">> }

\* if (value): null, undefined and the empty string are falsy
Truthy(value) == value # null /\ value # <<>>

\* object[key]: an own property, else the prototype's, else undefined
Get(object, key) ==
  IF key \in DOMAIN object THEN object[key]
  ELSE IF key \in ObjectPrototypeKeys THEN inherited
  ELSE null

\* object[key] = value
Put(object, key, value) ==
  [k \in DOMAIN object \cup {key} |-> IF k = key THEN value ELSE object[k]]

\* {}
EmptyObject == [k \in {} |-> null]

(***************************************************************************)
(* Characters                                                              *)
(***************************************************************************)
DQ == "\""
SQ == "'"
\* the backquote character (a string literal cannot hold it)
BQ == "backquote"

Lower == {"a","b","c","d","e","f","g","h","i","j","k","l","m",
          "n","o","p","q","r","s","t","u","v","w","x","y","z"}
Upper == {"A","B","C","D","E","F","G","H","I","J","K","L","M",
          "N","O","P","Q","R","S","T","U","V","W","X","Y","Z"}
Digit == {"0","1","2","3","4","5","6","7","8","9"}

\* \s
IsWhitespace(c) == c \in {" ", "\t"}
\* [a-zA-Z_] and [a-zA-Z0-9_]
IsRobotStart(c) == c \in Lower \cup Upper \cup {"_"}
IsRobotPart(c) == c \in Lower \cup Upper \cup Digit \cup {"_"}
\* [a-zA-Z_$] and [a-zA-Z0-9_$]
IsWordStart(c) == c \in Lower \cup Upper \cup {"_", "$"}
IsWordPart(c) == c \in Lower \cup Upper \cup Digit \cup {"_", "$"}

\* line.charAt(k): "" outside the line
CharAt(line, k) == IF k >= 0 /\ k < Len(line) THEN line[k + 1] ELSE ""

\* line.slice(from, to)
Slice(line, from, to) == SubSeq(line, from + 1, to)

Min(S) == CHOOSE m \in S : \A n \in S : m <= n

RECURSIVE SkipWhitespace(_, _)
\* \s* (greedy) from offset k: the offset of the first non-blank
SkipWhitespace(line, k) ==
  IF IsWhitespace(CharAt(line, k)) THEN SkipWhitespace(line, k + 1) ELSE k

RECURSIVE SkipWordPart(_, _)
\* [a-zA-Z0-9_$]* (greedy) from offset k
SkipWordPart(line, k) ==
  IF IsWordPart(CharAt(line, k)) THEN SkipWordPart(line, k + 1) ELSE k

RECURSIVE SkipRobotPart(_, _)
\* [a-zA-Z0-9_]* (greedy) from offset k
SkipRobotPart(line, k) ==
  IF IsRobotPart(CharAt(line, k)) THEN SkipRobotPart(line, k + 1) ELSE k

RECURSIVE IndexOf(_, _, _)
\* line.indexOf(c, k), -1 when absent
IndexOf(line, c, k) ==
  IF k >= Len(line) THEN -1
  ELSE IF CharAt(line, k) = c THEN k
  ELSE IndexOf(line, c, k + 1)

RECURSIVE TrimEnd(_)
TrimEnd(s) ==
  IF s # <<>> /\ IsWhitespace(s[Len(s)]) THEN TrimEnd(SubSeq(s, 1, Len(s) - 1)) ELSE s

\* s.trim()
Trim(s) == LET k == SkipWhitespace(s, 0) IN TrimEnd(Slice(s, k, Len(s)))

(***************************************************************************)
(* Regular expressions of the source, matched as the engine matches them:  *)
(* leftmost start first, greedy quantifiers.                               *)
(***************************************************************************)
noMatch == [found |-> FALSE]

RECURSIVE MatchSource(_, _, _, _)
\* The identifier is pasted unescaped into the pattern (lines 108-110, 127):
\* a letter, digit or '_' matches itself, '$' is the end-of-input assertion.
\* Returns the offset after the match, -1 when there is none.
MatchSource(line, k, source, j) ==
  IF j > Len(source) THEN k
  ELSE IF source[j] = "$"
       THEN IF k = Len(line) THEN MatchSource(line, k, source, j + 1) ELSE -1
  ELSE IF CharAt(line, k) = source[j]
       THEN MatchSource(line, k + 1, source, j + 1)
  ELSE -1

\* variableName\s*=\s*Q([^Q]*)Q tried at offset i
QuotedAt(line, i, variableName, quote) ==
  LET a == MatchSource(line, i, variableName, 1)
      b == SkipWhitespace(line, a)
      c == SkipWhitespace(line, b + 1)
      e == IndexOf(line, quote, c + 1)
  IN IF a # -1 /\ CharAt(line, b) = "=" /\ CharAt(line, c) = quote /\ e # -1
     THEN [found |-> TRUE, index |-> i, capture |-> Slice(line, c + 1, e)]
     ELSE noMatch

\* line.match(new RegExp(`${variableName}\\s*=\\s*Q([^Q]*)Q`))
MatchQuoted(line, variableName, quote) ==
  LET hits == {i \in 0..Len(line) : QuotedAt(line, i, variableName, quote).found}
  IN IF hits = {} THEN noMatch ELSE QuotedAt(line, Min(hits), variableName, quote)

\* extractVariableValue without the third pattern (lines 110, 118-119): the
\* back-quoted form is not tried
extractVariableValueTwoForms(line, variableName) ==
  LET double == MatchQuoted(line, variableName, DQ)
      single == MatchQuoted(line, variableName, SQ)
  IN IF double.found /\ Truthy(double.capture) THEN double.capture
     ELSE IF single.found /\ Truthy(single.capture) THEN single.capture
     ELSE null

\* Extract the value assigned to a variable (Python/JS/TS style)
extractVariableValue(line, variableName) ==
  LET double == MatchQuoted(line, variableName, DQ)
      single == MatchQuoted(line, variableName, SQ)
      back == MatchQuoted(line, variableName, BQ)
  IN IF double.found /\ Truthy(double.capture) THEN double.capture
     ELSE IF single.found /\ Truthy(single.capture) THEN single.capture
     ELSE IF back.found /\ Truthy(back.capture) THEN back.capture
     ELSE null

\* \$\{variableName\}\s+(.+?)$ tried at offset i: \s+ takes every blank and
\* gives one back when nothing else is left for (.+?)
RobotValueAt(line, i, variableName) ==
  LET a == IF CharAt(line, i) = "$" /\ CharAt(line, i + 1) = "{"
           THEN MatchSource(line, i + 2, variableName, 1) ELSE -1
      b == SkipWhitespace(line, a + 1)
  IN IF a = -1 \/ CharAt(line, a) # "}" \/ b = a + 1 THEN noMatch
     ELSE IF b < Len(line)
          THEN [found |-> TRUE, index |-> i, capture |-> Slice(line, b, Len(line))]
     ELSE IF b - (a + 1) >= 2
          THEN [found |-> TRUE, index |-> i, capture |-> Slice(line, b - 1, Len(line))]
     ELSE noMatch

\* Extract Robot Framework variable value
extractRobotVariableValue(line, variableName) ==
  LET hits == {i \in 0..Len(line) : RobotValueAt(line, i, variableName).found}
      match == IF hits = {} THEN noMatch ELSE RobotValueAt(line, Min(hits), variableName)
  IN IF match.found /\ Truthy(match.capture) THEN Trim(match.capture) ELSE null

\* /\$\{([a-zA-Z_][a-zA-Z0-9_]*)\}/ tried at offset i
RobotVarAt(line, i) ==
  LET e == SkipRobotPart(line, i + 2)
  IN IF CharAt(line, i) = "$" /\ CharAt(line, i + 1) = "{"
        /\ IsRobotStart(CharAt(line, i + 2)) /\ CharAt(line, e) = "}"
     THEN [found |-> TRUE, index |-> i, end |-> e + 1, name |-> Slice(line, i + 2, e)]
     ELSE noMatch

RECURSIVE RobotVars(_, _)
\* every robotVarRegex.exec(line) of the /g loop, from lastIndex
RobotVars(line, lastIndex) ==
  LET hits == {i \in lastIndex..Len(line) : RobotVarAt(line, i).found}
  IN IF hits = {} THEN <<>>
     ELSE LET m == RobotVarAt(line, Min(hits)) IN <<m>> \o RobotVars(line, m.end)

\* /([a-zA-Z_$][a-zA-Z0-9_$]*)\s*=/ tried at offset i
AssignmentAt(line, i) ==
  LET e == SkipWordPart(line, i + 1)
      b == SkipWhitespace(line, e)
  IN IF IsWordStart(CharAt(line, i)) /\ CharAt(line, b) = "="
     THEN [found |-> TRUE, index |-> i, end |-> b + 1, name |-> Slice(line, i, e)]
     ELSE noMatch

RECURSIVE Assignments(_, _)
\* every assignmentRegex.exec(line) of the /g loop, from lastIndex
Assignments(line, lastIndex) ==
  LET hits == {i \in lastIndex..Len(line) : AssignmentAt(line, i).found}
  IN IF hits = {} THEN <<>>
     ELSE LET m == AssignmentAt(line, Min(hits)) IN <<m>> \o Assignments(line, m.end)

(***************************************************************************)
(* The host: documents, the file system, JSON                              *)
(***************************************************************************)
\* a document is [fsPath, languageId, lines]; document.lineAt(i).text
lineAt(document, i) == document.lines[i + 1]
lineCount(document) == Len(document.lines)

\* path.join(dir, name): a path is the sequence of its components
Join(dir, name) == Append(dir, name)

\* fs.existsSync(file): the disk maps each existing file to its content
existsSync(file) == file \in DOMAIN disk

\* What JSON.parse gives: null, or an object with its own properties
JsonNull == [type |-> "null"]
JsonObject(props) == [type |-> "object", props |-> props]

\* File contents: a JSON text (by the value it parses to), a text that is
\* not JSON, an image
JsonText(value) == [json |-> TRUE, value |-> value]
Malformed == [json |-> FALSE]
Image == [image |-> TRUE]

\* metadata[variableName]: a descriptor, a function inherited from
\* Object.prototype (which has none of the descriptor's fields), or undefined
undefinedElement == [undefined |-> TRUE]
\* a photo field that is absent (file names are strings, compared as such)
noPhoto == "undefined"
inheritedElement ==
  [tag |-> null, text |-> null, xpath |-> null, css |-> null, photo |-> noPhoto]
Element(metadata, variableName) ==
  IF variableName \in DOMAIN metadata.props THEN metadata.props[variableName]
  ELSE IF variableName \in ObjectPrototypeKeys THEN inheritedElement
  ELSE undefinedElement

(***************************************************************************)
(* ElementHoverProvider                                                    *)
(***************************************************************************)
cacheTimeout == 5000
variableAssignmentCacheTimeout == 5000

\* loadMetadata with the freshness test of line 43 off by one: a table cached
\* exactly cacheTimeout ago still counts as fresh
loadMetadataInclusive(metadataFile, readFails) ==
  LET unchanged == [cache |-> metadataCache, path |-> metadataCachePath,
                    time |-> lastCacheTime, stored |-> FALSE,
                    threw |-> FALSE, called |-> TRUE]
  IN IF /\ metadataCache.type = "object"
        /\ metadataCachePath = metadataFile
        /\ now - lastCacheTime <= cacheTimeout
     THEN unchanged @@ [returns |-> metadataCache, read |-> FALSE]
     ELSE IF ~existsSync(metadataFile)
     THEN unchanged @@ [returns |-> JsonNull, read |-> FALSE]
     \* readFileSync or JSON.parse throws: caught at line 62
     ELSE IF readFails \/ ~disk[metadataFile].json
     THEN unchanged @@ [returns |-> JsonNull, read |-> TRUE]
     ELSE [cache |-> disk[metadataFile].value, path |-> metadataFile, time |-> now,
           returns |-> disk[metadataFile].value, read |-> TRUE, stored |-> TRUE,
           threw |-> FALSE, called |-> TRUE]

\* loadMetadata without the try/catch of lines 51-65: what readFileSync or
\* JSON.parse throws reaches the caller
loadMetadataUncaught(metadataFile, readFails) ==
  LET unchanged == [cache |-> metadataCache, path |-> metadataCachePath,
                    time |-> lastCacheTime, stored |-> FALSE,
                    threw |-> FALSE, called |-> TRUE]
  IN IF /\ metadataCache.type = "object"
        /\ metadataCachePath = metadataFile
        /\ now - lastCacheTime < cacheTimeout
     THEN unchanged @@ [returns |-> metadataCache, read |-> FALSE]
     ELSE IF ~existsSync(metadataFile)
     THEN unchanged @@ [returns |-> JsonNull, read |-> FALSE]
     ELSE IF readFails \/ ~disk[metadataFile].json
     THEN [unchanged EXCEPT !.threw = TRUE] @@ [returns |-> JsonNull, read |-> TRUE]
     ELSE [cache |-> disk[metadataFile].value, path |-> metadataFile, time |-> now,
           returns |-> disk[metadataFile].value, read |-> TRUE, stored |-> TRUE,
           threw |-> FALSE, called |-> TRUE]

\* Load metadata from file with caching.  readFails: readFileSync throws.
\* The result carries what the call returns and the fields it leaves behind.
loadMetadata(metadataFile, readFails) ==
  LET unchanged == [cache |-> metadataCache, path |-> metadataCachePath,
                    time |-> lastCacheTime, stored |-> FALSE,
                    threw |-> FALSE, called |-> TRUE]
  IN IF /\ metadataCache.type = "object"
        /\ metadataCachePath = metadataFile
        /\ now - lastCacheTime < cacheTimeout
     THEN unchanged @@ [returns |-> metadataCache, read |-> FALSE]
     ELSE IF ~existsSync(metadataFile)
     THEN unchanged @@ [returns |-> JsonNull, read |-> FALSE]
     \* readFileSync or JSON.parse throws: caught at line 62
     ELSE IF readFails \/ ~disk[metadataFile].json
     THEN unchanged @@ [returns |-> JsonNull, read |-> TRUE]
     ELSE [cache |-> disk[metadataFile].value, path |-> metadataFile, time |-> now,
           returns |-> disk[metadataFile].value, read |-> TRUE, stored |-> TRUE,
           threw |-> FALSE, called |-> TRUE]

\* document.getWordRangeAtPosition(position): the run of word characters
\* that touches the position, [start, end), or none
RECURSIVE WordStart(_, _)
WordStart(line, k) ==
  IF IsWordPart(CharAt(line, k - 1)) THEN WordStart(line, k - 1) ELSE k

getWordRangeAtPosition(document, position) ==
  LET line == lineAt(document, position.line)
      start == WordStart(line, position.character)
      end == SkipWordPart(line, position.character)
  IN IF start = end THEN noMatch ELSE [found |-> TRUE, start |-> start, end |-> end]

RECURSIVE FirstAround(_, _)
\* the while loop of lines 79-87: the first match the cursor is within
FirstAround(matches, character) ==
  IF matches = <<>> THEN null
  ELSE IF character >= Head(matches).index /\ character <= Head(matches).end
       THEN Head(matches).name
  ELSE FirstAround(Tail(matches), character)

\* /^[a-zA-Z_$][a-zA-Z0-9_$]*$/.test(word)
IsVariableName(word) ==
  /\ word # <<>>
  /\ IsWordStart(word[1])
  /\ \A k \in 2..Len(word) : IsWordPart(word[k])

\* Get variable name at cursor position
getVariableAtPosition(document, position) ==
  IF document.languageId = "robotframework"
  THEN FirstAround(RobotVars(lineAt(document, position.line), 0), position.character)
  ELSE LET range == getWordRangeAtPosition(document, position)
           word == Slice(lineAt(document, position.line), range.start, range.end)
       IN IF ~range.found THEN null
          ELSE IF ~IsVariableName(word) THEN null
          ELSE word

RECURSIVE ScanMatchesLastWins(_, _, _, _)
\* ScanMatches without the tests of lines 162 and 176: a later occurrence
\* replaces the value recorded for the identifier
ScanMatchesLastWins(cache, line, matches, isRobot) ==
  IF matches = <<>> THEN cache
  ELSE LET varName == Head(matches).name
           value == IF isRobot THEN extractRobotVariableValue(line, varName)
                    ELSE extractVariableValue(line, varName)
           next == IF Truthy(value) THEN Put(cache, varName, value) ELSE cache
       IN ScanMatchesLastWins(next, line, Tail(matches), isRobot)

RECURSIVE ScanMatches(_, _, _, _)
\* the inner while loop of lines 159-168 and 173-182
ScanMatches(cache, line, matches, isRobot) ==
  IF matches = <<>> THEN cache
  ELSE LET varName == Head(matches).name
           value == IF isRobot THEN extractRobotVariableValue(line, varName)
                    ELSE extractVariableValue(line, varName)
           next == IF ~Truthy(Get(cache, varName)) /\ Truthy(value)
                   THEN Put(cache, varName, value)
                   ELSE cache
       IN ScanMatches(next, line, Tail(matches), isRobot)

\* one pass of the for loop's body (lines 153-183)
ScanLine(cache, line, isRobot) ==
  ScanMatches(cache, line,
              IF isRobot THEN RobotVars(line, 0) ELSE Assignments(line, 0),
              isRobot)

RECURSIVE ScanLines(_, _, _, _)
\* the for loop of line 152 over lines i .. end-1
ScanLines(cache, document, i, end) ==
  IF i >= end THEN cache
  ELSE ScanLines(ScanLine(cache, lineAt(document, i),
                          document.languageId = "robotframework"),
                 document, i + 1, end)

\* no line of the document fails to be read
NoFailure == -1

\* buildVariableAssignmentCache with the freshness test of line 144 off by
\* one: an index built exactly variableAssignmentCacheTimeout ago is still used
buildVariableAssignmentCacheInclusive(document, failAt) ==
  IF /\ variableAssignmentCachePath = document.fsPath
     /\ now - variableAssignmentCacheTime <= variableAssignmentCacheTimeout
  THEN [cache |-> variableAssignmentCache, path |-> variableAssignmentCachePath,
        time |-> variableAssignmentCacheTime, returns |-> variableAssignmentCache,
        hit |-> TRUE, scanned |-> 0, threw |-> FALSE, called |-> TRUE]
  ELSE IF failAt \in 0..(lineCount(document) - 1)
  THEN [cache |-> ScanLines(EmptyObject, document, 0, failAt),
        path |-> variableAssignmentCachePath, time |-> variableAssignmentCacheTime,
        returns |-> EmptyObject, hit |-> FALSE, scanned |-> failAt, threw |-> TRUE,
        called |-> TRUE]
  ELSE LET built == ScanLines(EmptyObject, document, 0, lineCount(document))
       IN [cache |-> built, path |-> document.fsPath, time |-> now,
           returns |-> built, hit |-> FALSE, scanned |-> lineCount(document),
           threw |-> FALSE, called |-> TRUE]

\* Build variable assignment cache.  failAt: the line whose document.lineAt
\* throws (NoFailure: none does).  this.variableAssignmentCache is always an
\* object, so the first test of line 142 is always true.
buildVariableAssignmentCache(document, failAt) ==
  IF /\ variableAssignmentCachePath = document.fsPath
     /\ now - variableAssignmentCacheTime < variableAssignmentCacheTimeout
  THEN [cache |-> variableAssignmentCache, path |-> variableAssignmentCachePath,
        time |-> variableAssignmentCacheTime, returns |-> variableAssignmentCache,
        hit |-> TRUE, scanned |-> 0, threw |-> FALSE, called |-> TRUE]
  ELSE IF failAt \in 0..(lineCount(document) - 1)
  THEN [cache |-> ScanLines(EmptyObject, document, 0, failAt),
        path |-> variableAssignmentCachePath, time |-> variableAssignmentCacheTime,
        returns |-> EmptyObject, hit |-> FALSE, scanned |-> failAt, threw |-> TRUE,
        called |-> TRUE]
  ELSE LET built == ScanLines(EmptyObject, document, 0, lineCount(document))
       IN [cache |-> built, path |-> document.fsPath, time |-> now,
           returns |-> built, hit |-> FALSE, scanned |-> lineCount(document),
           threw |-> FALSE, called |-> TRUE]

\* cache[variableName] || null (line 196); an exception passes through
Lookup(build, variableName) ==
  [build EXCEPT !.returns =
     IF build.threw \/ ~Truthy(Get(build.returns, variableName)) THEN null
     ELSE Get(build.returns, variableName)]

\* Find variable assignment efficiently using cache
findVariableAssignmentEfficient(document, variableName, failAt) ==
  Lookup(buildVariableAssignmentCache(document, failAt), variableName)

\* The hover shown: the image and the fields the descriptor has
noHover == [type |-> "null"]
Hover(photoPath, element) ==
  [type |-> "hover", image |-> photoPath, tag |-> element.tag,
   fields |-> {f \in {"text", "xpath", "css"} : Truthy(element[f])}]

\* the fields as a call that does not reach loadMetadata or the index leaves them
metadataUntouched ==
  [cache |-> metadataCache, path |-> metadataCachePath, time |-> lastCacheTime,
   returns |-> JsonNull, read |-> FALSE, stored |-> FALSE, threw |-> FALSE,
   called |-> FALSE]
indexUntouched ==
  [cache |-> variableAssignmentCache, path |-> variableAssignmentCachePath,
   time |-> variableAssignmentCacheTime, returns |-> null, hit |-> FALSE,
   scanned |-> 0, threw |-> FALSE, called |-> FALSE]

\* what provideHover returns and what its calls leave in the fields
Result(returns, variableName, load, find) ==
  [returns |-> returns, variableName |-> variableName, metadata |-> load, index |-> find]

\* lines 236-278: the value is compared and the photo looked for
HoverOfValue(variableName, element, photosDir, load, find) ==
  LET actualValue == find.returns
      hasMatchingValue ==
        \/ Truthy(element.xpath) /\ element.xpath = actualValue
        \/ Truthy(element.css) /\ element.css = actualValue
      photoPath == Join(photosDir, element.photo)
  IN \* an exception of the scan is caught at line 280
     IF find.threw THEN Result(noHover, variableName, load, find)
     ELSE IF ~Truthy(actualValue) THEN Result(noHover, variableName, load, find)
     ELSE IF ~hasMatchingValue THEN Result(noHover, variableName, load, find)
     \* path.join(photosDir, undefined) throws a TypeError, caught at line 280
     ELSE IF element.photo = noPhoto THEN Result(noHover, variableName, load, find)
     ELSE IF ~existsSync(photoPath) THEN Result(noHover, variableName, load, find)
     ELSE Result(Hover(photoPath, element), variableName, load, find)

\* lines 222-234: the table is looked up and the value resolved
HoverOfMetadata(document, variableName, photosDir, load, failAt) ==
  IF load.returns.type # "object"
  THEN Result(noHover, variableName, load, indexUntouched)
  ELSE IF "undefined" \in DOMAIN Element(load.returns, variableName)
  THEN Result(noHover, variableName, load, indexUntouched)
  ELSE HoverOfValue(variableName, Element(load.returns, variableName), photosDir, load,
                    findVariableAssignmentEfficient(document, variableName, failAt))

\* HoverOfVariable without the test of line 216: the metadata file is not
\* looked for before loadMetadata is asked
HoverOfVariableUnchecked(document, variableName, readFails, failAt) ==
  LET photosDir == Join(workspaceFolder, ".photos")
      metadataFile == Join(photosDir, "element_selectors.json")
  IN IF ~Truthy(variableName)
     THEN Result(noHover, variableName, metadataUntouched, indexUntouched)
     ELSE IF workspaceFolder = null
     THEN Result(noHover, variableName, metadataUntouched, indexUntouched)
     ELSE HoverOfMetadata(document, variableName, photosDir,
                          loadMetadata(metadataFile, readFails), failAt)

\* lines 204-221: the identifier, the workspace folder, the metadata file
HoverOfVariable(document, variableName, readFails, failAt) ==
  LET photosDir == Join(workspaceFolder, ".photos")
      metadataFile == Join(photosDir, "element_selectors.json")
  IN IF ~Truthy(variableName)
     THEN Result(noHover, variableName, metadataUntouched, indexUntouched)
     ELSE IF workspaceFolder = null
     THEN Result(noHover, variableName, metadataUntouched, indexUntouched)
     ELSE IF ~existsSync(metadataFile)
     THEN Result(noHover, variableName, metadataUntouched, indexUntouched)
     ELSE HoverOfMetadata(document, variableName, photosDir,
                          loadMetadata(metadataFile, readFails), failAt)

\* Main hover provider
provideHover(document, position, readFails, failAt) ==
  HoverOfVariable(document, getVariableAtPosition(document, position), readFails, failAt)

(***************************************************************************)
(* The earlier variant of the provider (lines 296-515): no index, the      *)
(* cursor's line first and then the whole document                         *)
(***************************************************************************)
RECURSIVE FirstValue(_, _, _)
\* the for loop of lines 399-405, from line i
FirstValue(document, variableName, i) ==
  IF i >= lineCount(document) THEN null
  ELSE LET value == extractVariableValue(lineAt(document, i), variableName)
       IN IF Truthy(value) THEN value ELSE FirstValue(document, variableName, i + 1)

\* Find variable assignment in the entire document
findVariableAssignment(document, variableName) == FirstValue(document, variableName, 0)

\* lines 448-454 of provideHover: the value the earlier variant resolves
legacyActualValue(document, position, variableName) ==
  LET actualValue == extractVariableValue(lineAt(document, position.line), variableName)
  IN IF ~Truthy(actualValue) THEN findVariableAssignment(document, variableName)
     ELSE actualValue

(***************************************************************************)
(* Inputs                                                                  *)
(***************************************************************************)
MaxTicks == 2
MaxCharacter == 0
MaxSegments == 2
MaxLines == 2

x == <<"x">>
y == <<"y">>
yx == <<"y", "x">>
dollarX == <<"$", "x">>
xDollar == <<"x", "$">>
constructor == <<"c","o","n","s","t","r","u","c","t","o","r">>

\* name = Qvalue Q
Assign(name, quote, value) == name \o <<" ", "=", " ", quote>> \o value \o <<quote>>
\* ${name}  value
RobotAssign(name, value) == <<"$", "{">> \o name \o <<"}", " ", " ">> \o value

Documents ==
  { [fsPath |-> <<"a.py">>, languageId |-> "python",
     lines |-> <<Assign(x, DQ, <<"a">>), Assign(x, DQ, <<"b">>)>>],
    [fsPath |-> <<"a.py">>, languageId |-> "python",
     lines |-> <<Assign(x, DQ, <<"b">>), Assign(y, SQ, <<"c">>)>>],
    [fsPath |-> <<"b.js">>, languageId |-> "javascript",
     lines |-> <<Assign(constructor, DQ, <<"a">>), Assign(constructor, DQ, <<"b">>)>>],
    [fsPath |-> <<"c.robot">>, languageId |-> "robotframework",
     lines |-> <<RobotAssign(x, <<"a">>), RobotAssign(x, <<"b">>)>>] }

\* the documents hovered in: the two texts of a.py and the robot file
HoverDocuments == {d \in Documents : d.fsPath # <<"b.js">>}

\* cursor positions: the first columns of each line and its end
Positions(document) ==
  UNION { {[line |-> l, character |-> c] :
             c \in (0..MaxCharacter) \cup {Len(lineAt(document, l))}} :
          l \in 0..(lineCount(document) - 1) }

FailurePoints(document) == {NoFailure} \cup (0..(lineCount(document) - 1))

WorkspaceFolders == { <<"ws1">>, <<"ws2">> }
MetadataFile(folder) == Join(Join(folder, ".photos"), "element_selectors.json")
PhotoFile(folder, photo) == Join(Join(folder, ".photos"), photo)

Descriptor(tag, text, xpath, css, photo) ==
  [tag |-> tag, text |-> text, xpath |-> xpath, css |-> css, photo |-> photo]

Table1 == JsonObject(x :> Descriptor(<<"b">>, null, <<"a">>, null, "x.png"))
Table2 == JsonObject(x :> Descriptor(<<"a">>, <<"t">>, null, <<"b">>, "x.png")
                     @@ y :> Descriptor(<<"p">>, null, <<"c">>, null, noPhoto))

MetadataContents == {Malformed, JsonText(JsonNull), JsonText(Table1), JsonText(Table2)}

(***************************************************************************)
(* The state after construction (lines 22-34); the clock is far past 1970  *)
(***************************************************************************)
TickStep == cacheTimeout \div 2
StartTime == 2 * cacheTimeout

idle == [op |-> "none"]

Init ==
  /\ now = StartTime
  /\ metadataCache = JsonNull
  /\ metadataCachePath = null
  /\ lastCacheTime = 0
  /\ variableAssignmentCache = EmptyObject
  /\ variableAssignmentCachePath = null
  /\ variableAssignmentCacheTime = 0
  /\ workspaceFolder = null
  /\ disk = [file \in {} |-> Image]
  /\ call = idle
  /\ metadataOrigin =
       [last |-> null,
        reads |-> [file \in {MetadataFile(folder) : folder \in WorkspaceFolders} |->
                     [done |-> FALSE, time |-> 0, value |-> JsonNull, retried |-> FALSE]]]
  /\ indexOrigin = [fsPath |-> null, lines |-> <<>>, complete |-> TRUE]

metadataFields == <<metadataCache, metadataCachePath, lastCacheTime, metadataOrigin>>
indexFields == <<variableAssignmentCache, variableAssignmentCachePath,
                 variableAssignmentCacheTime, indexOrigin>>
host == <<now, workspaceFolder, disk>>

\* History of loadMetadata: per file, the last call that read and cached it
\* (when, what) and whether a call for it has come after that went stale;
\* last is the file cached most recently.
OriginAfter(load, metadataFile) ==
  IF ~load.called THEN metadataOrigin
  ELSE IF load.stored
  THEN [last |-> metadataFile,
        reads |-> [metadataOrigin.reads EXCEPT ![metadataFile] =
                     [done |-> TRUE, time |-> now, value |-> load.cache, retried |-> FALSE]]]
  ELSE IF /\ metadataOrigin.reads[metadataFile].done
          /\ now - metadataOrigin.reads[metadataFile].time >= cacheTimeout
  THEN [metadataOrigin EXCEPT !.reads[metadataFile].retried = TRUE]
  ELSE metadataOrigin

\* what a loadMetadata call leaves in the fields
StoreMetadata(load, metadataFile) ==
  /\ metadataCache' = load.cache
  /\ metadataCachePath' = load.path
  /\ lastCacheTime' = load.time
  /\ metadataOrigin' = OriginAfter(load, metadataFile)

\* what a buildVariableAssignmentCache call leaves in the fields
StoreIndex(build, document) ==
  /\ variableAssignmentCache' = build.cache
  /\ variableAssignmentCachePath' = build.path
  /\ variableAssignmentCacheTime' = build.time
  /\ indexOrigin' = IF build.called /\ ~build.hit
                    THEN [fsPath |-> document.fsPath, lines |-> document.lines,
                          complete |-> ~build.threw]
                    ELSE indexOrigin

(***************************************************************************)
(* The host's steps.  The host is single-threaded: a call runs to its end, *)
(* call holds what it was given and what it returned until the caller has  *)
(* taken the result (Return), and only then does anything else happen.     *)
(***************************************************************************)
Return ==
  /\ call # idle
  /\ call' = idle
  /\ UNCHANGED <<metadataFields, indexFields, host>>

\* time passes
Tick ==
  /\ call = idle
  /\ now + TickStep <= StartTime + MaxTicks * TickStep
  /\ now' = now + TickStep
  /\ call' = idle
  /\ UNCHANGED <<metadataFields, indexFields, workspaceFolder, disk>>

\* the user or a tool writes the metadata file or a photo
WriteFile(file, content) ==
  /\ call = idle
  /\ disk' = Put(disk, file, content)
  /\ call' = idle
  /\ UNCHANGED <<metadataFields, indexFields, now, workspaceFolder>>

DeleteFile(file) ==
  /\ call = idle
  /\ file \in DOMAIN disk
  /\ disk' = [f \in DOMAIN disk \ {file} |-> disk[f]]
  /\ call' = idle
  /\ UNCHANGED <<metadataFields, indexFields, now, workspaceFolder>>

\* the first workspace folder changes (null: no folder is open)
ChangeWorkspace(folder) ==
  /\ call = idle
  /\ folder # workspaceFolder
  /\ workspaceFolder' = folder
  /\ call' = idle
  /\ UNCHANGED <<metadataFields, indexFields, now, disk>>

(***************************************************************************)
(* The provider's operations                                               *)
(***************************************************************************)
\* the editor asks for a hover
ProvideHover(document, position, readFails, failAt) ==
  /\ call = idle
  /\ \E hover \in {provideHover(document, position, readFails, failAt)} :
        /\ StoreMetadata(hover.metadata, MetadataFile(workspaceFolder))
        /\ StoreIndex(hover.index, document)
        /\ call' = [op |-> "provideHover", fsPath |-> document.fsPath,
                    variableName |-> hover.variableName, returns |-> hover.returns,
                    metadata |-> hover.metadata.returns, actualValue |-> hover.index.returns,
                    hit |-> hover.index.hit]
        /\ UNCHANGED host

LoadMetadata(metadataFile, readFails) ==
  /\ call = idle
  /\ \E load \in {loadMetadata(metadataFile, readFails)} :
        /\ StoreMetadata(load, metadataFile)
        /\ call' = [op |-> "loadMetadata", metadataFile |-> metadataFile,
                    before |-> [cache |-> metadataCache, path |-> metadataCachePath,
                                time |-> lastCacheTime, origin |-> metadataOrigin],
                    returns |-> load.returns, read |-> load.read, threw |-> load.threw]
        /\ UNCHANGED <<indexFields, host>>

BuildVariableAssignmentCache(document, failAt) ==
  /\ call = idle
  /\ \E build \in {buildVariableAssignmentCache(document, failAt)} :
        /\ StoreIndex(build, document)
        /\ call' = [op |-> "buildVariableAssignmentCache", document |-> document,
                    before |-> [cache |-> variableAssignmentCache,
                                path |-> variableAssignmentCachePath,
                                time |-> variableAssignmentCacheTime,
                                origin |-> indexOrigin],
                    returns |-> build.returns, hit |-> build.hit,
                    scanned |-> build.scanned, threw |-> build.threw]
        /\ UNCHANGED <<metadataFields, host>>

FindVariableAssignmentEfficient(document, variableName, failAt) ==
  /\ call = idle
  /\ \E find \in {findVariableAssignmentEfficient(document, variableName, failAt)} :
        /\ StoreIndex(find, document)
        /\ call' = [op |-> "findVariableAssignmentEfficient", document |-> document,
                    variableName |-> variableName,
                    before |-> [cache |-> variableAssignmentCache,
                                path |-> variableAssignmentCachePath,
                                time |-> variableAssignmentCacheTime,
                                origin |-> indexOrigin],
                    returns |-> find.returns, hit |-> find.hit,
                    scanned |-> find.scanned, threw |-> find.threw]
        /\ UNCHANGED <<metadataFields, host>>

(***************************************************************************)
(* The provider in the editor: hovers, the clock, the files, the folders   *)
(***************************************************************************)
HoverFiles == {MetadataFile(<<"ws1">>), PhotoFile(<<"ws1">>, "x.png")}

Next ==
  \/ Tick
  \/ \E content \in {Malformed, JsonText(Table1), JsonText(Table2)} :
       WriteFile(MetadataFile(<<"ws1">>), content)
  \/ WriteFile(PhotoFile(<<"ws1">>, "x.png"), Image)
  \/ \E file \in HoverFiles : DeleteFile(file)
  \/ \E folder \in {null, <<"ws1">>} : ChangeWorkspace(folder)
  \/ \E document \in HoverDocuments, readFails \in {FALSE} :
       \E position \in Positions(document), failAt \in FailurePoints(document) :
         ProvideHover(document, position, readFails, failAt)
  \/ Return

Spec == Init /\ [][Next]_vars

(***************************************************************************)
(* loadMetadata called on its own, for the metadata files of two folders   *)
(***************************************************************************)
MetadataFiles == {MetadataFile(folder) : folder \in WorkspaceFolders}

NextMetadata ==
  \/ Tick
  \/ \E file \in MetadataFiles, content \in MetadataContents : WriteFile(file, content)
  \/ \E file \in MetadataFiles : DeleteFile(file)
  \/ \E file \in MetadataFiles, readFails \in BOOLEAN : LoadMetadata(file, readFails)
  \/ Return

SpecMetadata == Init /\ [][NextMetadata]_vars

(***************************************************************************)
(* The assignment index called on its own                                  *)
(***************************************************************************)
Names == {x, y, constructor}

NextIndex ==
  \/ Tick
  \/ \E document \in Documents :
       \E failAt \in FailurePoints(document) :
         BuildVariableAssignmentCache(document, failAt)
  \/ \E document \in Documents, variableName \in Names :
       \E failAt \in FailurePoints(document) :
         FindVariableAssignmentEfficient(document, variableName, failAt)
  \/ Return

SpecIndex == Init /\ [][NextIndex]_vars

(***************************************************************************)
(* The text functions applied to lines and documents put together from     *)
(* pieces                                                                  *)
(***************************************************************************)
RECURSIVE Concat(_)
Concat(pieces) == IF pieces = <<>> THEN <<>> ELSE Head(pieces) \o Concat(Tail(pieces))

\* sequences of 1 to n elements of S
UpTo(S, n) == UNION {[1..k -> S] : k \in 1..n}

Quotes == {DQ, SQ, BQ}

abc == <<"a", "b", "c">>

\* name=Qvalue Q, without blanks
AssignTight(name, quote, value) == name \o <<"=", quote>> \o value \o <<quote>>

Segments ==
  {Assign(x, quote, abc) : quote \in Quotes}
  \cup { AssignTight(x, DQ, abc), Assign(x, DQ, <<"z">>), Assign(x, DQ, <<>>),
         Assign(x, SQ, <<"d">>), Assign(yx, DQ, <<"q">>), Assign(y, SQ, <<"e">>),
         Assign(dollarX, DQ, <<"v">>), Assign(xDollar, DQ, <<"w">>), <<";", " ">> }

Lines == {Concat(pieces) : pieces \in UpTo(Segments, MaxSegments)}

VariableNames == {x, yx, dollarX, xDollar}

RobotSegments ==
  { <<"$", "{", "A", "}">>, <<"$", "{", "B", "1", "}">>, <<"$", "{", "1", "}">>,
    <<" ", " ">>, <<"/", "x">> }

RobotLines == {Concat(pieces) : pieces \in UpTo(RobotSegments, MaxSegments + 1)}

DocumentLines ==
  { Assign(x, DQ, <<"a">>), Assign(x, DQ, <<"b">>), Assign(yx, DQ, <<"q">>),
    Assign(constructor, DQ, <<"a">>), Assign(dollarX, SQ, <<"v">>), <<"x", "+", "+">> }

TextDocuments ==
  {[fsPath |-> <<"t.js">>, languageId |-> "javascript", lines |-> lines] :
     lines \in UpTo(DocumentLines, MaxLines)}

OneLine(languageId, line) ==
  [fsPath |-> <<"t">>, languageId |-> languageId, lines |-> <<line>>]

ExtractVariableValue(line, variableName) ==
  /\ call = idle
  /\ call' = [op |-> "extractVariableValue", line |-> line, variableName |-> variableName,
              returns |-> extractVariableValue(line, variableName),
              index |-> ScanLine(EmptyObject, line, FALSE)]
  /\ UNCHANGED <<metadataFields, indexFields, host>>

GetVariableAtPosition(document, position) ==
  /\ call = idle
  /\ call' = [op |-> "getVariableAtPosition", languageId |-> document.languageId,
              line |-> lineAt(document, position.line), character |-> position.character,
              returns |-> getVariableAtPosition(document, position)]
  /\ UNCHANGED <<metadataFields, indexFields, host>>

\* the value both variants of provideHover resolve for the identifier: the
\* earlier one from the cursor's line and then the document, this one from
\* an index built anew (the provider is as constructed)
ResolveActualValue(document, position, variableName) ==
  /\ call = idle
  /\ call' = [op |-> "resolveActualValue", document |-> document, position |-> position,
              variableName |-> variableName,
              legacy |-> legacyActualValue(document, position, variableName),
              index |-> buildVariableAssignmentCache(document, NoFailure).returns,
              efficient |->
                findVariableAssignmentEfficient(document, variableName, NoFailure).returns]
  /\ UNCHANGED <<metadataFields, indexFields, host>>

NextText ==
  \/ \E line \in Lines, variableName \in VariableNames :
       ExtractVariableValue(line, variableName)
  \/ \E line \in RobotLines, character \in 0..(MaxSegments + 1) * 5 :
       /\ character <= Len(line)
       /\ GetVariableAtPosition(OneLine("robotframework", line),
                                [line |-> 0, character |-> character])
  \/ \E line \in Lines, character \in 0..(MaxCharacter + 4) :
       GetVariableAtPosition(OneLine("python", line), [line |-> 0, character |-> character])
  \/ \E document \in TextDocuments, variableName \in VariableNames \cup {constructor} :
       \E l \in 0..(lineCount(document) - 1) :
         ResolveActualValue(document, [line |-> l, character |-> 0], variableName)
  \/ Return

SpecText == Init /\ [][NextText]_vars

(***************************************************************************)
(* Properties of provideHover (Spec)                                       *)
(***************************************************************************)
\* the metadata file of the open folder
HoverFile == MetadataFile(workspaceFolder)

\* The metadata table a hover works with: the cached one while it is fresh,
\* else what the file holds.  A hover changes neither the clock nor the disk
\* nor the folder, so this is the same before and after the call.
MetadataTable ==
  IF /\ metadataCache.type = "object"
     /\ metadataCachePath = HoverFile
     /\ now - lastCacheTime < cacheTimeout
  THEN metadataCache
  ELSE IF existsSync(HoverFile) /\ disk[HoverFile].json THEN disk[HoverFile].value
  ELSE JsonNull

NoWorkspaceRoot == workspaceFolder = null
NoMetadataFile == ~existsSync(HoverFile)
IsKey == MetadataTable.type = "object" /\ call.variableName \in DOMAIN MetadataTable.props
ValueMatches ==
  /\ IsKey
  /\ Truthy(call.actualValue)
  /\ \/ call.actualValue = MetadataTable.props[call.variableName].xpath
     \/ call.actualValue = MetadataTable.props[call.variableName].css
PhotoExists ==
  /\ IsKey
  /\ MetadataTable.props[call.variableName].photo # noPhoto
  /\ existsSync(PhotoFile(workspaceFolder, MetadataTable.props[call.variableName].photo))

\* C1: provideHover returns no result whenever there is no workspace root,
\* or the metadata file does not exist, or the identifier under the cursor is
\* not a key of the metadata table, or the value resolved for it equals
\* neither the descriptor's xpath nor its css, or the descriptor's photo file
\* does not exist -- whatever the two caches hold.
C1_NoResult ==
  call.op = "provideHover" =>
    (NoWorkspaceRoot \/ NoMetadataFile \/ ~IsKey \/ ~ValueMatches \/ ~PhotoExists
       => call.returns = noHover)

\* a hover asked for while a fresh cached table holds the identifier and its
\* photo is there, but the metadata file is gone: nothing is shown
C1_Witness ==
  /\ call.op = "provideHover"
  /\ ~NoWorkspaceRoot
  /\ NoMetadataFile
  /\ metadataCache.type = "object"
  /\ IsKey
  /\ PhotoExists
  /\ call.returns = noHover

\* C9: every call that takes the cache-hit branch for a path returns an index
\* produced by a completed scan of a document with that path, also after
\* scans aborted part-way by an exception that provideHover catches.
C9_HitReturnsCompletedScanOfPath ==
  call.op = "provideHover" /\ call.hit =>
    indexOrigin.complete /\ indexOrigin.fsPath = call.fsPath

(***************************************************************************)
(* Properties of loadMetadata (SpecMetadata)                               *)
(***************************************************************************)
\* the last call before this one that read and cached the file now asked for
LastRead == call.before.origin.reads[call.metadataFile]
CachedTableBefore == LastRead.done /\ LastRead.value.type = "object"
SinceLastRead == now - LastRead.time

\* C2 as claimed: in any sequence of loadMetadata calls, once a call for path
\* P has read and cached the table at time t, every later call for P at t'
\* with t' - t < cacheTimeout returns the cached table without reading the
\* file, and the first call for P with t' - t >= cacheTimeout reads the file
\* again.
C2_Original ==
  call.op = "loadMetadata" /\ CachedTableBefore =>
    /\ SinceLastRead < cacheTimeout => call.returns = LastRead.value /\ ~call.read
    /\ SinceLastRead >= cacheTimeout /\ ~LastRead.retried => call.read

\* C2, amended: once a call for path P has read and cached the table at time
\* t, every later call for P at t' with t' - t < cacheTimeout returns that
\* table without reading the file as long as no call in between has read and
\* cached the file of another path (the provider keeps one table); the first
\* call for P with t' - t >= cacheTimeout reads the file again if the file
\* still exists, and returns none without reading if it does not.
C2_FreshnessWindow ==
  call.op = "loadMetadata" /\ CachedTableBefore =>
    /\ SinceLastRead < cacheTimeout /\ call.before.origin.last = call.metadataFile
         => call.returns = LastRead.value /\ ~call.read
    /\ SinceLastRead >= cacheTimeout /\ ~LastRead.retried
         => IF existsSync(call.metadataFile) THEN call.read
            ELSE ~call.read /\ call.returns = JsonNull

\* a call inside the window answered from the cache although the file now
\* holds another table
C2_Witness ==
  /\ call.op = "loadMetadata"
  /\ CachedTableBefore
  /\ call.before.origin.last = call.metadataFile
  /\ SinceLastRead > 0
  /\ SinceLastRead < cacheTimeout
  /\ existsSync(call.metadataFile)
  /\ disk[call.metadataFile] # JsonText(LastRead.value)
  /\ call.returns = LastRead.value
  /\ ~call.read

\* the table held for the asked path is fresh
FreshBefore ==
  /\ call.before.cache.type = "object"
  /\ call.before.path = call.metadataFile
  /\ now - call.before.time < cacheTimeout

MalformedFile == existsSync(call.metadataFile) /\ ~disk[call.metadataFile].json

\* C5 as claimed: when the metadata file exists but its content is not valid
\* JSON, loadMetadata returns none and no exception reaches its caller, in
\* every state of the metadata cache.
C5_Original ==
  call.op = "loadMetadata" /\ MalformedFile =>
    call.returns = JsonNull /\ ~call.threw

\* C5, amended: when the metadata file exists but its content is not valid
\* JSON, no exception reaches the caller of loadMetadata in any state of the
\* metadata cache; it returns none and leaves the cache as it was, unless a
\* table cached for the same path less than cacheTimeout ago is held: then it
\* returns that table without reading the file.
C5_MalformedJson ==
  call.op = "loadMetadata" /\ MalformedFile =>
    /\ ~call.threw
    /\ metadataCache = call.before.cache
    /\ metadataCachePath = call.before.path
    /\ lastCacheTime = call.before.time
    /\ IF FreshBefore THEN call.returns = call.before.cache /\ ~call.read
       ELSE call.returns = JsonNull /\ call.read

\* a malformed file asked for while a table of another path, or a stale one,
\* is held: the file is read, none comes back, the held table stays
C5_Witness ==
  /\ call.op = "loadMetadata"
  /\ MalformedFile
  /\ call.before.cache.type = "object"
  /\ ~FreshBefore
  /\ call.read
  /\ call.returns = JsonNull
  /\ ~call.threw
  /\ metadataCache = call.before.cache

(***************************************************************************)
(* Properties of the assignment index (SpecIndex)                          *)
(***************************************************************************)
IndexCall == call.op \in {"buildVariableAssignmentCache", "findVariableAssignmentEfficient"}

\* the document's path differs from the recorded one, or the index is at
\* least variableAssignmentCacheTimeout old
MustRescan ==
  \/ call.document.fsPath # call.before.path
  \/ now - call.before.time >= variableAssignmentCacheTimeout

\* C3: buildVariableAssignmentCache rescans the document exactly when the
\* document path differs from the path recorded with the cached index or at
\* least variableAssignmentCacheTimeout has passed since the index was built;
\* in every other call it returns the previously built index unchanged
\* without scanning any line, even if the document's text has changed.
C3_RescanExactlyWhenStale ==
  IndexCall =>
    /\ call.hit <=> ~MustRescan
    /\ ~call.hit /\ ~call.threw => call.scanned = lineCount(call.document)
    /\ call.hit =>
         /\ call.scanned = 0
         /\ variableAssignmentCache = call.before.cache
         /\ variableAssignmentCachePath = call.before.path
         /\ variableAssignmentCacheTime = call.before.time
         /\ call.op = "buildVariableAssignmentCache" => call.returns = call.before.cache

\* the index built from one text of a path is returned, unscanned, for
\* another text of that path
C3_Witness ==
  /\ call.op = "buildVariableAssignmentCache"
  /\ call.hit
  /\ call.before.origin.complete
  /\ call.before.origin.fsPath = call.document.fsPath
  /\ call.before.origin.lines # call.document.lines
  /\ call.scanned = 0
  /\ call.returns = call.before.cache

AssignedValues == {<<"a">>, <<"b">>, <<"c">>}

\* the line is an assignment of the value to the identifier
IsAssignmentOf(line, name, value) ==
  \/ \E quote \in Quotes : line = Assign(name, quote, value)
  \/ line = RobotAssign(name, value)

\* the lines of the document that assign to the identifier
AssignmentLines(document, name) ==
  {i \in 0..(lineCount(document) - 1) :
     \E value \in AssignedValues : IsAssignmentOf(lineAt(document, i), name, value)}

\* C4: when the index is rebuilt for a document with two assignments to the
\* same identifier on different lines, it maps the identifier to the value of
\* the first occurrence only, and findVariableAssignmentEfficient returns
\* that first value.
C4_FirstOccurrenceWins ==
  /\ call.op = "findVariableAssignmentEfficient"
  /\ ~call.hit
  /\ ~call.threw
  /\ Cardinality(AssignmentLines(call.document, call.variableName)) >= 2
  => LET first == Min(AssignmentLines(call.document, call.variableName))
     IN /\ IsAssignmentOf(lineAt(call.document, first), call.variableName, call.returns)
        /\ call.variableName \in DOMAIN variableAssignmentCache
        /\ variableAssignmentCache[call.variableName] = call.returns

(***************************************************************************)
(* Properties of the text functions (SpecText)                             *)
(***************************************************************************)
\* offsets of the line that hold the character
Offsets(line, char) == {k \in 0..(Len(line) - 1) : CharAt(line, k) = char}

Blank(line, from, to) == \A k \in from..(to - 1) : IsWhitespace(CharAt(line, k))

\* At offset i the line reads: the name, blanks, '=' at offset e, blanks, the
\* quote at offset o, characters other than the quote, the quote at offset c.
ReadsAt(line, name, quote, i, e, o, c) ==
  /\ i + Len(name) <= e
  /\ Slice(line, i, i + Len(name)) = name
  /\ Blank(line, i + Len(name), e)
  /\ e < o
  /\ Blank(line, e + 1, o)
  /\ o < c
  /\ \A k \in (o + 1)..(c - 1) : CharAt(line, k) # quote

\* the places <<i, o, c>> of the line where the name is assigned a literal in
\* that quote, the name standing alone or ending a longer word
Places(line, name, quote) ==
  {t \in (0..Len(line)) \X Offsets(line, quote) \X Offsets(line, quote) :
     \E e \in Offsets(line, "=") : ReadsAt(line, name, quote, t[1], e, t[2], t[3])}

Leftmost(places) == CHOOSE t \in places : \A u \in places : t[1] <= u[1]

\* the literal of the leftmost place, null when there is no place
LeftmostLiteral(line, name, quote) ==
  LET places == Places(line, name, quote)
  IN IF places = {} THEN null
     ELSE Slice(line, Leftmost(places)[2] + 1, Leftmost(places)[3])

\* the line contains name = Q abc Q with the name standing alone
ContainsAbc(line, name, quote) ==
  \E t \in Places(line, name, quote) :
     /\ Slice(line, t[2] + 1, t[3]) = abc
     /\ ~IsWordPart(CharAt(line, t[1] - 1))

\* C6 as claimed: for any line that contains x = "abc", whatever else is on
\* the line, extractVariableValue(line, "x") returns abc; the same for the
\* single-quoted and the back-quoted form.
C6_Original ==
  /\ call.op = "extractVariableValue"
  /\ call.variableName = x
  /\ \E quote \in Quotes : ContainsAbc(call.line, x, quote)
  => call.returns = abc

\* C6, amended: extractVariableValue(line, "x") returns the literal of the
\* leftmost place in the line where the text x, alone or as the end of a
\* longer word, is followed by optional whitespace, '=', optional whitespace
\* and a double-quoted literal -- abc when that place is x = "abc"; when
\* there is no such place or its literal is empty, the same of the
\* single-quoted form, then of the back-quoted form, and none after that.
C6_LeftmostPlace ==
  call.op = "extractVariableValue" /\ call.variableName \in {x, yx} =>
    LET double == LeftmostLiteral(call.line, call.variableName, DQ)
        single == LeftmostLiteral(call.line, call.variableName, SQ)
        back == LeftmostLiteral(call.line, call.variableName, BQ)
    IN call.returns = IF Truthy(double) THEN double
                      ELSE IF Truthy(single) THEN single
                      ELSE IF Truthy(back) THEN back
                      ELSE null

\* x = "abc" is the leftmost double-quoted place of a line that assigns
\* something else before it, and abc comes back
C6_Witness ==
  /\ call.op = "extractVariableValue"
  /\ call.variableName = x
  /\ ContainsAbc(call.line, x, DQ)
  /\ LeftmostLiteral(call.line, x, DQ) = abc
  /\ Leftmost(Places(call.line, x, DQ))[1] > 0
  /\ Places(call.line, x, SQ) # {}
  /\ call.returns = abc

\* the ${name} tokens of the line whose span from '$' to '}' holds the offset
SpansAround(line, character) ==
  LET tokens == RobotVars(line, 0)
  IN {k \in 1..Len(tokens) :
        tokens[k].index <= character /\ character <= tokens[k].end - 1}

\* C7: for a robotframework document getVariableAtPosition returns the name
\* of the first ${name} occurrence on the line whose span from the '$' to the
\* '}' inclusive contains the cursor offset, and none when the offset lies in
\* no such span.
C7_SpanContainsCursor ==
  call.op = "getVariableAtPosition" /\ call.languageId = "robotframework" =>
    LET spans == SpansAround(call.line, call.character)
    IN call.returns = IF spans = {} THEN null
                      ELSE RobotVars(call.line, 0)[Min(spans)].name

\* C10: for every identifier getVariableAtPosition can return for a
\* non-robotframework document, also one containing '$', and every line
\* identifier = "v" with v non-empty, extractVariableValue(line, identifier)
\* returns v and the index built from that line maps the identifier to v.
C10_DollarIdentifiers ==
  /\ call.op = "extractVariableValue"
  /\ IsVariableName(call.variableName)
  => \A v \in {<<"v">>, <<"w">>, <<"q">>, <<"z">>, abc} :
        call.line = Assign(call.variableName, DQ, v) =>
          /\ call.returns = v
          /\ Get(call.index, call.variableName) = v

\* what extractVariableValue gives for the identifier on line l of the
\* document of the call
ValueOnLine(l) == extractVariableValue(lineAt(call.document, l), call.variableName)

\* the lines that yield a value for the identifier
YieldingLines == {l \in 0..(lineCount(call.document) - 1) : Truthy(ValueOnLine(l))}

\* the identifier is one of the assigned names the scan finds on line l
AssignedOn(l) ==
  LET matches == Assignments(lineAt(call.document, l), 0)
  IN \E k \in 1..Len(matches) : matches[k].name = call.variableName

\* C8 as claimed: for every document, identifier and cursor line, the value
\* resolved by the legacy strategy (the cursor's line, else the whole
\* document) equals the value a freshly built index gives for the identifier.
C8_Original ==
  call.op = "resolveActualValue" => call.legacy = call.efficient

\* C8, amended: the legacy strategy gives the value of the cursor's line when
\* that line yields one, else the value of the first line that yields one;
\* the freshly built index gives the value of the first line that yields one
\* when the identifier is an assigned name on that line.  So the two agree
\* when the first yielding line has the identifier as an assigned name and
\* the cursor is on that line or on a line that yields nothing, and both give
\* none when no line yields a value.  For an identifier that names a member
\* of Object.prototype the index gives that member and not the legacy value.
C8_StrategiesAgreeOffCursor ==
  call.op = "resolveActualValue" =>
    /\ call.position.line \in YieldingLines => call.legacy = ValueOnLine(call.position.line)
    /\ IF call.variableName \in ObjectPrototypeKeys
       THEN call.efficient = inherited /\ call.legacy # call.efficient
       ELSE IF YieldingLines = {}
       THEN call.legacy = null /\ call.efficient = null
       ELSE /\ AssignedOn(Min(YieldingLines))
            /\ \/ call.position.line = Min(YieldingLines)
               \/ call.position.line \notin YieldingLines
            => /\ call.efficient = ValueOnLine(Min(YieldingLines))
               /\ call.legacy = call.efficient

\* two lines assign to the identifier, the cursor is on the first, and both
\* strategies give the first line's value
C8_Witness ==
  /\ call.op = "resolveActualValue"
  /\ Cardinality(YieldingLines) = 2
  /\ ValueOnLine(0) # ValueOnLine(1)
  /\ AssignedOn(0)
  /\ call.position.line = 0
  /\ call.efficient = ValueOnLine(0)
  /\ call.legacy = call.efficient

====
